---- MODULE Spec2Model ----
(***************************************************************************)
(* gdalwrap: the raster dataset (gdal_base / gdal_named / gdal_custom of   *)
(* include/gdalwrap/gdal.hpp), its coordinate mapping and the tile merge   *)
(* of src/merge.cpp, as state machines.                                    *)
(*                                                                         *)
(* Numbers.  A C++ double is modelled as a binary floating-point number    *)
(* with MantBits significant bits and a smallest quantum of 2^-FracBits,   *)
(* rounded to nearest, ties to even, after every operation: the integer n  *)
(* stands for n / 2^FracBits.  size_t is an unsigned integer of SizeBits   *)
(* bits (TLC's integers have 32 bits; the model's dimensions stay far      *)
(* below either limit).  A sample (T = float) is a small integer.          *)
(* A std::string is a sequence of one-character strings.                   *)
(***************************************************************************)
EXTENDS Integers, Sequences, FiniteSets, TLC

\* ------------------------------------------------------------------ bounds
MantBits == 8
FracBits == 8
SizeBits == 16
MaxBands == 2
MaxDim == 2
MaxPixels == 2
MaxSample == 1

\* ---------------------------------------------------------------- integers
RECURSIVE Pow2(_)
Pow2(n) == IF n <= 0 THEN 1 ELSE 2 * Pow2(n - 1)

Abs(x) == IF x < 0 THEN -x ELSE x

\* floor(n / d) for any d # 0
FloorDiv(n, d) == IF d > 0 THEN n \div d ELSE (-n) \div (-d)

\* n / d (n >= 0, d > 0) rounded to the nearest integer, ties to even
RoundHalfEven(n, d) ==
    LET q == n \div d
        r == n % d
    IN  IF 2 * r < d THEN q
        ELSE IF 2 * r > d THEN q + 1
        ELSE IF q % 2 = 0 THEN q ELSE q + 1

\* ----------------------------------------------------------------- doubles
Unit == Pow2(FracBits)

\* the exponent of the quantum that a magnitude of n/d units is rounded to
RECURSIVE QuantumExp(_, _)
QuantumExp(whole, k) ==
    IF whole < Pow2(MantBits + k) THEN k ELSE QuantumExp(whole, k + 1)

\* the double nearest to the rational n / d (in units), d > 0
RoundQ(n, d) ==
    LET a == Abs(n)
        k == QuantumExp(a \div d, 0)
        m == RoundHalfEven(a, d * Pow2(k))
    IN  IF n < 0 THEN -(m * Pow2(k)) ELSE m * Pow2(k)

\* the double nearest to the rational n / d, n and d integers, d # 0
D(n, d) == IF d > 0 THEN RoundQ(n * Unit, d) ELSE RoundQ(-(n * Unit), -d)

IsDouble(x) == RoundQ(x, 1) = x

dadd(a, b) == RoundQ(a + b, 1)
dsub(a, b) == RoundQ(a - b, 1)
dmul(a, b) == RoundQ(a * b, Unit)
ddiv(a, b) == IF b > 0 THEN RoundQ(a * Unit, b) ELSE RoundQ(-(a * Unit), -b)

\* std::floor of a double: an integer-valued double, given as that integer
dfloor(a) == FloorDiv(a, Unit)

\* std::round of a double: nearest integer, halfway cases away from zero
dround(a) ==
    IF a >= 0 THEN (2 * a + Unit) \div (2 * Unit)
    ELSE -((2 * (-a) + Unit) \div (2 * Unit))

\* ------------------------------------------------------------------ size_t
SizeMax == Pow2(SizeBits) - 1

\* The conversion of an integer-valued double to size_t.  A value outside
\* the range of size_t is undefined behaviour: the builds in use either wrap
\* it modulo 2^SizeBits (x86-64 cvttsd2si) or saturate it (AArch64 fcvtzu).
ToSizeT(v) ==
    IF v >= 0 /\ v <= SizeMax THEN {v}
    ELSE IF v < 0 THEN {0, (v % (SizeMax + 1))}
    ELSE {SizeMax, v % (SizeMax + 1)}

\* ----------------------------------------------------------------- strings
RECURSIVE Digits(_)
Digits(n) ==
    IF n < 10 THEN <<ToString(n)>> ELSE Digits(n \div 10) \o <<ToString(n % 10)>>

RECURSIVE PadZero(_, _)
PadZero(s, len) == IF Len(s) >= len THEN s ELSE PadZero(<<"0">> \o s, len)

Million == 1000000

\* std::to_string(double): printf("%f"), six decimals
to_string(v) ==
    LET a == Abs(v)
        micro == (a \div Unit) * Million + RoundHalfEven((a % Unit) * Million, Unit)
    IN  (IF v < 0 THEN <<"-">> ELSE <<>>)
        \o Digits(micro \div Million) \o <<".">> \o PadZero(Digits(micro % Million), 6)

\* ---------------------------------------------------------------- metadata
EmptyMeta == <<>>

MetaPut(m, k, v) == [x \in (DOMAIN m) \cup {k} |-> IF x = k THEN v ELSE m[x]]

\* get(m, k, def): the value of a key, or a default
get(m, k, def) == IF k \in DOMAIN m THEN m[k] ELSE def

\* ------------------------------------------------------------------ vector
\* std::vector::resize(n, val): keeps the first n elements, appends val
resize(v, n, val) == [i \in 1..n |-> IF i <= Len(v) THEN v[i] ELSE val]

\* ============================================================ the dataset
\* gdal_custom<float>: the fields of gdal_base, gdal_named and gdal_custom
\* transform[0..5] of the source is transform[1..6] here
set_transform(g, pos_x, pos_y, width, height) ==
    [g EXCEPT !.transform = <<pos_x, width, 0, pos_y, 0, height>>]

set_utm(g, zone, north) == [g EXCEPT !.utm_zone = zone, !.utm_north = north]

set_custom_origin(g, x, y, z) ==
    [g EXCEPT !.custom_x_origin = x,
              !.custom_y_origin = y,
              !.custom_z_origin = z,
              !.metadata = MetaPut(MetaPut(MetaPut(g.metadata,
                               "CUSTOM_X_ORIGIN", to_string(x)),
                               "CUSTOM_Y_ORIGIN", to_string(y)),
                               "CUSTOM_Z_ORIGIN", to_string(z))]

\* gdal_custom(): gdal_base() leaves width and height uninitialized (w, h are
\* whatever the memory held); _init sets the transform, the UTM zone and the
\* custom origin
gdal_custom(w, h) ==
    set_custom_origin(
        set_utm(
            set_transform(
                [width |-> w, height |-> h, transform |-> <<0, 0, 0, 0, 0, 0>>,
                 utm_zone |-> 0, utm_north |-> TRUE,
                 bands |-> <<>>, band_metadata |-> <<>>, metadata |-> EmptyMeta,
                 custom_x_origin |-> 0, custom_y_origin |-> 0, custom_z_origin |-> 0],
                0, 0, D(1, 1), D(1, 1)),
            0, TRUE),
        0, 0, 0)

get_scale_x(g) == g.transform[2]
get_scale_y(g) == g.transform[6]
get_utm_pose_x(g) == g.transform[1]
get_utm_pose_y(g) == g.transform[4]

\* A faulty set_size, for the sensitivity of C2: bands of x samples, not x * y.
set_size_one_row(g, n, x, y, no_data) ==
    [g EXCEPT !.width = x,
              !.height = y,
              !.bands = [i \in 1..n |->
                  resize(IF i <= Len(g.bands) THEN g.bands[i] ELSE <<>>, x, no_data)],
              !.band_metadata = resize(g.band_metadata, n, EmptyMeta)]

\* set_size(n, x, y, no_data)
set_size(g, n, x, y, no_data) ==
    [g EXCEPT !.width = x,
              !.height = y,
              !.bands = [i \in 1..n |->
                  resize(IF i <= Len(g.bands) THEN g.bands[i] ELSE <<>>, x * y, no_data)],
              !.band_metadata = resize(g.band_metadata, n, EmptyMeta)]

\* set_size(x, y): "Set meta size. Does not change the container (unsafe)."
set_size_xy(g, x, y) == [g EXCEPT !.width = x, !.height = y]

\* gdal_base::copy_meta_only
copy_meta_only(g, copy) ==
    [g EXCEPT !.utm_zone = copy.utm_zone,
              !.utm_north = copy.utm_north,
              !.transform = copy.transform,
              !.metadata = copy.metadata]

\* gdal_custom::copy_meta_only
custom_copy_meta_only(g, copy) ==
    set_custom_origin(copy_meta_only(g, copy),
        copy.custom_x_origin, copy.custom_y_origin, copy.custom_z_origin)

\* copy_meta(copy, width, height); the default no_data of set_size is 0
copy_meta_wh(g, copy, width, height) ==
    set_size(copy_meta_only(g, copy), Len(copy.bands), width, height, 0)

\* copy_meta(copy)
copy_meta(g, copy) == copy_meta_wh(g, copy, copy.width, copy.height)

\* copy_meta(copy, n_raster)
copy_meta_n(g, copy, n_raster) ==
    set_size(copy_meta_only(g, copy), n_raster, copy.width, copy.height, 0)

clear(g) == [g EXCEPT !.bands = <<>>]

copy_impl(g, x) ==
    [copy_meta_only(g, x) EXCEPT !.width = x.width,
                                 !.height = x.height,
                                 !.bands = x.bands,
                                 !.band_metadata = x.band_metadata]

\* gdal_custom's implicit operator=: gdal_base::operator= (clear, then
\* copy_impl), then the three custom origin members.  x is read after clear:
\* when x is the object itself (same), it is the cleared object that is read.
operator_assign(g, x, same_object) ==
    LET cleared == clear(g)
        src == IF same_object THEN cleared ELSE x
        based == copy_impl(cleared, src)
    IN  [based EXCEPT !.custom_x_origin = src.custom_x_origin,
                      !.custom_y_origin = src.custom_y_origin,
                      !.custom_z_origin = src.custom_z_origin]

\* gdal_custom's implicit copy constructor: gdal_base(const gdal_base&) is
\* copy_impl on a fresh object, then the three custom origin members
copy_construct(x) ==
    [copy_impl(gdal_custom(0, 0), x) EXCEPT !.custom_x_origin = x.custom_x_origin,
                                            !.custom_y_origin = x.custom_y_origin,
                                            !.custom_z_origin = x.custom_z_origin]

\* operator==
equal(lhs, rhs) ==
    /\ lhs.width = rhs.width
    /\ lhs.height = rhs.height
    /\ get_scale_x(lhs) = get_scale_x(rhs)
    /\ get_scale_y(lhs) = get_scale_y(rhs)
    /\ get_utm_pose_x(lhs) = get_utm_pose_x(rhs)
    /\ get_utm_pose_y(lhs) = get_utm_pose_y(rhs)
    /\ lhs.metadata = rhs.metadata
    /\ lhs.bands = rhs.bands

\* ============================================================ coordinates
\* index_pix(size_t x, size_t y)
index_pix_xy(d, x, y) ==
    IF x >= d.width \/ y >= d.height THEN SizeMax ELSE x + y * d.width

\* index_pix(const point_xy_t& p): the results it can give.  std::round
\* gives a double, which is converted to the size_t parameter.
index_pix(d, p) ==
    {index_pix_xy(d, x, y) : x \in ToSizeT(dround(p[1])), y \in ToSizeT(dround(p[2]))}

point_pix2utm(d, x, y) ==
    <<dadd(dmul(x, get_scale_x(d)), get_utm_pose_x(d)),
      dadd(dmul(y, get_scale_y(d)), get_utm_pose_y(d))>>

\* A faulty point_utm2pix, for the sensitivity of C7: the pose is not taken off.
point_utm2pix_no_pose(d, x, y) ==
    <<ddiv(x, get_scale_x(d)), ddiv(y, get_scale_y(d))>>

point_utm2pix(d, x, y) ==
    <<ddiv(dsub(x, get_utm_pose_x(d)), get_scale_x(d)),
      ddiv(dsub(y, get_utm_pose_y(d)), get_scale_y(d))>>

index_utm(d, x, y) == index_pix(d, point_utm2pix(d, x, y))

point_pix2custom(d, x, y) ==
    LET p == point_pix2utm(d, x, y)
    IN  <<dsub(p[1], d.custom_x_origin), dsub(p[2], d.custom_y_origin)>>

point_custom2pix(d, x, y) ==
    point_utm2pix(d, dadd(x, d.custom_x_origin), dadd(y, d.custom_y_origin))

index_custom(d, x, y) == index_pix(d, point_custom2pix(d, x, y))

point_custom2utm(d, x, y) ==
    <<dadd(x, d.custom_x_origin), dadd(y, d.custom_y_origin)>>

point_utm2custom(d, x, y) ==
    <<dsub(x, d.custom_x_origin), dsub(y, d.custom_y_origin)>>


\* ================================================================== merge
\* numeric_limits<double>::epsilon() is 2^-(MantBits-1):
\* same(a, b) is |a - b| < epsilon
same(a, b) == Abs(dsub(a, b)) * Pow2(MantBits - 1) < Unit

\* std::vector<float>::max_size(): PTRDIFF_MAX / sizeof(float)
max_size == Pow2(SizeBits - 1) \div 4

RECURSIVE MinPose(_, _, _)
MinPose(files, k, coord) ==
    IF k = 1 THEN files[1].transform[coord]
    ELSE LET m == MinPose(files, k - 1, coord)
             v == files[k].transform[coord]
         IN  IF v < m THEN v ELSE m

RECURSIVE MaxPose(_, _, _)
MaxPose(files, k, coord) ==
    IF k = 1 THEN files[1].transform[coord]
    ELSE LET m == MaxPose(files, k - 1, coord)
             v == files[k].transform[coord]
         IN  IF v > m THEN v ELSE m

\* A faulty test, for the sensitivity of C8: the heights are not compared.
same_shape_no_height(first, file) ==
    /\ same(get_scale_x(first), get_scale_x(file))
    /\ same(get_scale_y(first), get_scale_y(file))
    /\ same(D(first.width, 1), D(file.width, 1))
    /\ Len(first.bands) = Len(file.bands)

\* the test of the first loop of merge on one file
same_shape(first, file) ==
    /\ same(get_scale_x(first), get_scale_x(file))
    /\ same(get_scale_y(first), get_scale_y(file))
    /\ same(D(first.width, 1), D(file.width, 1))
    /\ same(D(first.height, 1), D(file.height, 1))
    /\ Len(first.bands) = Len(file.bands)

\* the position in the output band (from 0) that the copy loop writes
\* sample j (from 1) of a tile's band to
dest(j, start, width, sx) == start + ((j - 1) \div width) * sx + ((j - 1) % width)

\* the pixel offsets of a file in the output and the start of its copy
xoff_of(file, ulx, scale_x) ==
    dfloor(dadd(ddiv(dsub(get_utm_pose_x(file), ulx), scale_x), D(1, 10)))

yoff_of(file, uly, scale_y) ==
    dfloor(dadd(ddiv(dsub(get_utm_pose_y(file), uly), scale_y), D(1, 10)))

\* one file's band copied into a band of the result, row by row; a write
\* outside the band is dropped here and reported by stray_write
copy_band(dst, src, start, width, sx) ==
    [i \in 1..Len(dst) |->
        LET js == {j \in 1..Len(src) : dest(j, start, width, sx) = i - 1}
        IN  IF js = {} THEN dst[i]
            ELSE src[CHOOSE j \in js : \A j2 \in js : j2 <= j]]

stray_write(len, src, start, width, sx) ==
    \E j \in 1..Len(src) :
        dest(j, start, width, sx) < 0 \/ dest(j, start, width, sx) >= len

\* the second loop of merge over files[1..k]
RECURSIVE copy_files(_, _, _, _, _, _, _)
copy_files(result, files, k, ulx, uly, sx, width) ==
    IF k = 0 THEN result
    ELSE LET r == copy_files(result, files, k - 1, ulx, uly, sx, width)
             file == files[k]
             start == xoff_of(file, ulx, get_scale_x(files[1]))
                      + yoff_of(file, uly, get_scale_y(files[1])) * sx
         IN  [r EXCEPT !.bands = [b \in 1..Len(r.bands) |->
                 copy_band(r.bands[b], file.bands[b], start, width, sx)]]

stray_files(files, ulx, uly, sx, sy, width) ==
    \E k \in 1..Len(files) :
        LET file == files[k]
            start == xoff_of(file, ulx, get_scale_x(files[1]))
                     + yoff_of(file, uly, get_scale_y(files[1])) * sx
        IN  \E b \in 1..Len(file.bands) :
                stray_write((sx * sy) % (SizeMax + 1), file.bands[b], start, width, sx)

\* result.names = files[0].names: the NAME entry of every band of the first file
names_of(file) ==
    [i \in 1..Len(file.band_metadata) |->
        IF "NAME" \in DOMAIN file.band_metadata[i]
        THEN [x \in {"NAME"} |-> file.band_metadata[i]["NAME"]]
        ELSE EmptyMeta]

\* merge(files, no_data) up to its second loop: the set of its outcomes.
\*   "runtime_error" throws "file size missmatch" before result exists
\*   "length_error"  set_size throws: the band size exceeds max_size;
\*                   result is destroyed
\*   "ok"            result is set up, every sample no_data
\* There are several outcomes only when a size is negative and its
\* conversion to size_t is undefined.
merge_setup(files, no_data) ==
    LET first == files[1]
        scale_x == get_scale_x(first)
        scale_y == get_scale_y(first)
        width == first.width
        height == first.height
        bsize == Len(first.bands)
        ulx == MinPose(files, Len(files), 1)
        uly == MaxPose(files, Len(files), 4)
        lrx == dadd(MaxPose(files, Len(files), 1), dmul(scale_x, D(width, 1)))
        lry == dadd(MinPose(files, Len(files), 4), dmul(scale_y, D(height, 1)))
        fsx == dfloor(dadd(ddiv(dsub(lrx, ulx), scale_x), D(1, 2)))
        fsy == dfloor(dadd(ddiv(dsub(lry, uly), scale_y), D(1, 2)))
    IN  IF \E k \in 1..Len(files) : ~same_shape(first, files[k])
        THEN {[status |-> "runtime_error"]}
        ELSE {LET size == (sx * sy) % (SizeMax + 1)
                  named == [custom_copy_meta_only(gdal_custom(0, 0), first)
                               EXCEPT !.band_metadata = names_of(first)]
                  placed == set_transform(named, ulx, uly, scale_x, scale_y)
              IN  IF bsize > 0 /\ size > max_size
                  THEN [status |-> "length_error"]
                  ELSE [status |-> "ok", sx |-> sx, sy |-> sy,
                        result |-> set_size(placed, bsize, sx, sy, no_data)]
              : sx \in ToSizeT(fsx), sy \in ToSizeT(fsy)}

\* merge(files, no_data): the set of its outcomes, those of merge_setup and
\*   "ok"            returns result
\*   "ub"            the copy loop writes outside a band of result
\*                   (result holds the writes that fell inside)
merge(files, no_data) ==
    LET ulx == MinPose(files, Len(files), 1)
        uly == MaxPose(files, Len(files), 4)
        width == files[1].width
    IN  {IF s.status # "ok" THEN s
         ELSE [status |-> IF stray_files(files, ulx, uly, s.sx, s.sy, width)
                          THEN "ub" ELSE "ok",
               result |-> copy_files(s.result, files, Len(files), ulx, uly, s.sx, width)]
         : s \in merge_setup(files, no_data)}

\* ====================================================== the state machines
\* g      the dataset the operations are applied to
\* files, no_data, out   the arguments of a call of merge and its outcome
\* call, arg, ret        a call of a coordinate function on g and its result
VARIABLES g, files, no_data, out, call, arg, ret

vars == <<g, files, no_data, out, call, arg, ret>>

\* the samples callers write and fill with: zero and one other value
Samples == {0, MaxSample}
Dims == 0..MaxDim
Shapes == {s \in Dims \X Dims : s[1] * s[2] <= MaxPixels}

\* the arguments callers give set_transform, set_utm and set_custom_origin
Transforms == {<<D(1, 1), D(2, 1), D(1, 1), D(-1, 1)>>}
Utms == {<<31, FALSE>>}
Origins == {<<D(1, 2), D(1, 1), D(2, 1)>>}

\* a dataset as a caller builds it: constructed, placed, sized and filled
Built(n, s, v, t, u, o) ==
    set_size(
        set_custom_origin(
            set_utm(set_transform(gdal_custom(0, 0), t[1], t[2], t[3], t[4]), u[1], u[2]),
            o[1], o[2], o[3]),
        n, s[1], s[2], v)

DefaultTransform == <<0, 0, D(1, 1), D(1, 1)>>
DefaultUtm == <<0, TRUE>>
DefaultOrigin == <<0, 0, 0>>

\* the other datasets of the program, which g is assigned and copied from
Others ==
    {gdal_custom(0, 0)}
    \cup {Built(1, <<1, 1>>, MaxSample, t, u, o) :
              t \in Transforms, u \in Utms, o \in Origins}
    \cup {Built(MaxBands, <<MaxPixels, 1>>, MaxSample,
                DefaultTransform, DefaultUtm, DefaultOrigin)}

NoCall == "none"
NoOutcome == [status |-> "none"]

Idle ==
    /\ files = <<>>
    /\ no_data = 0
    /\ out = NoOutcome
    /\ call = NoCall
    /\ arg = <<0, 0>>
    /\ ret = <<0, 0>>

Init ==
    /\ g \in {gdal_custom(s[1], s[2]) : s \in Shapes}
    /\ Idle

Apply(next) ==
    /\ g' = next
    /\ UNCHANGED <<files, no_data, out, call, arg, ret>>

SetSize(n, x, y, no_data_) == Apply(set_size(g, n, x, y, no_data_))

SetSizeXY(x, y) == Apply(set_size_xy(g, x, y))

\* a caller writes one sample through the public member bands
WriteSample(band, i, v) ==
    /\ band \in 1..Len(g.bands)
    /\ i \in 1..Len(g.bands[band])
    /\ Apply([g EXCEPT !.bands[band][i] = v])

Clear == Apply(clear(g))

\* g = x
Assign(x) == Apply(operator_assign(g, x, FALSE))

\* g = g
AssignSelf == Apply(operator_assign(g, g, TRUE))

\* g is destroyed and constructed again as a copy of x
CopyConstruct(x) == Apply(copy_construct(x))

CopyMeta(x) == Apply(copy_meta(g, x))

CopyMetaN(x, n) == Apply(copy_meta_n(g, x, n))

CopyMetaWH(x, w, h) == Apply(copy_meta_wh(g, x, w, h))

SetTransform(t) == Apply(set_transform(g, t[1], t[2], t[3], t[4]))

SetUtm(u) == Apply(set_utm(g, u[1], u[2]))

SetCustomOrigin(o) == Apply(set_custom_origin(g, o[1], o[2], o[3]))

\* every band of a dataset holds width * height samples
Consistent(x) == \A b \in 1..Len(x.bands) : Len(x.bands[b]) = x.width * x.height

\* g = merge(fs, nd): merge reads rows of width samples from every band of
\* every file, so the files are consistent datasets with nonzero scales.  A
\* merge that throws leaves g as it was; one that writes outside a band
\* either ends the program there or returns what it wrote inside.
MergeAssign(fs, nd) ==
    /\ \A k \in 1..Len(fs) : Consistent(fs[k])
    /\ \E o \in merge(fs, nd) :
           \/ o.status \in {"ok", "ub"} /\ Apply(operator_assign(g, o.result, FALSE))
           \/ o.status # "ok" /\ Apply(g)

Next ==
    \/ \E n \in 0..MaxBands, s \in Shapes, f \in Samples : SetSize(n, s[1], s[2], f)
    \/ \E s \in Shapes : SetSizeXY(s[1], s[2])
    \/ \E b \in 1..MaxBands, i \in 1..MaxPixels, v \in Samples : WriteSample(b, i, v)
    \/ Clear
    \/ \E x \in Others : Assign(x)
    \/ AssignSelf
    \/ \E x \in Others : CopyConstruct(x)
    \/ \E x \in Others \cup {g} : CopyMeta(x)
    \/ \E x \in Others \cup {g}, n \in 0..MaxBands : CopyMetaN(x, n)
    \/ \E x \in Others \cup {g}, s \in Shapes : CopyMetaWH(x, s[1], s[2])
    \/ \E t \in Transforms : SetTransform(t)
    \/ \E u \in Utms : SetUtm(u)
    \/ \E o \in Origins : SetCustomOrigin(o)
    \/ \E x \in Others, nd \in Samples : MergeAssign(<<g>>, nd) \/ MergeAssign(<<g, x>>, nd)

Spec == Init /\ [][Next]_vars

\* ------------------------------------------- calls of coordinate functions
\* the datasets the coordinate functions are called on
CoordTransforms ==
    {DefaultTransform,
     <<D(60, 1), D(-15, 2), D(3, 8), D(-1, 2)>>,
     <<D(3, 1), D(100, 1), D(2, 1), D(-3, 8)>>}
CoordOrigins == {DefaultOrigin, <<D(13, 4), D(-40, 1), 0>>}

CoordGrids ==
    {Built(1, <<MaxDim + 1, MaxDim>>, 0, t, DefaultUtm, o) :
         t \in CoordTransforms, o \in CoordOrigins}

\* pixel coordinates in half pixels, from left of and above the grid to
\* right of and below it
PixelPoints ==
    LET vs == {D(n, 2) : n \in (-3)..(2 * MaxDim + 3)} IN vs \X vs

InitCoord ==
    /\ g \in CoordGrids
    /\ Idle

Call(name, p, r) ==
    /\ call' = name
    /\ arg' = p
    /\ ret' = r
    /\ UNCHANGED <<g, files, no_data, out>>

CallIndexPix(p) == \E r \in index_pix(g, p) : Call("index_pix", p, r)

CallIndexUtm(p) == \E r \in index_utm(g, p[1], p[2]) : Call("index_utm", p, r)

CallIndexCustom(p) == \E r \in index_custom(g, p[1], p[2]) : Call("index_custom", p, r)

CallPix2Utm(p) == Call("point_pix2utm", p, point_pix2utm(g, p[1], p[2]))

CallUtm2Pix(p) == Call("point_utm2pix", p, point_utm2pix(g, p[1], p[2]))

CallPix2Custom(p) == Call("point_pix2custom", p, point_pix2custom(g, p[1], p[2]))

CallCustom2Pix(p) == Call("point_custom2pix", p, point_custom2pix(g, p[1], p[2]))

CallCustom2Utm(p) == Call("point_custom2utm", p, point_custom2utm(g, p[1], p[2]))

CallUtm2Custom(p) == Call("point_utm2custom", p, point_utm2custom(g, p[1], p[2]))

\* the UTM and custom coordinates callers ask about: those of PixelPoints
UtmPoints == {point_pix2utm(g, p[1], p[2]) : p \in PixelPoints}
CustomPoints == {point_pix2custom(g, p[1], p[2]) : p \in PixelPoints}

\* the functions are const: a behaviour is one call on one dataset
Ready == call = NoCall

NextCoord ==
    \/ Ready /\ \E p \in PixelPoints : CallIndexPix(p)
    \/ Ready /\ \E p \in UtmPoints : CallIndexUtm(p)
    \/ Ready /\ \E p \in CustomPoints : CallIndexCustom(p)
    \/ Ready /\ \E p \in PixelPoints : CallPix2Utm(p)
    \/ Ready /\ \E p \in UtmPoints : CallUtm2Pix(p)
    \/ Ready /\ \E p \in PixelPoints : CallPix2Custom(p)
    \/ Ready /\ \E p \in CustomPoints : CallCustom2Pix(p)
    \/ Ready /\ \E p \in CustomPoints : CallCustom2Utm(p)
    \/ Ready /\ \E p \in UtmPoints : CallUtm2Custom(p)

SpecCoord == InitCoord /\ [][NextCoord]_vars

\* ---------------------------------------------------------- calls of merge
MaxOffset == 2
NoData == 7

\* tile number tag: n bands of w * h samples, each sample telling its tile,
\* band and place
Tile(tag, n, w, h, t) ==
    [Built(n, <<w, h>>, 0, t, DefaultUtm, DefaultOrigin)
        EXCEPT !.bands = [b \in 1..n |-> [i \in 1..(w * h) |-> 100 * tag + 10 * b + i]]]

TileShapes == {s \in (1..MaxDim) \X (1..MaxDim) : s[1] * s[2] <= MaxPixels}

\* scale_x, scale_y of the first tile, of either sign
TileScales ==
    {<<D(1, 1), D(-1, 1)>>, <<D(1, 1), D(1, 1)>>, <<D(-1, 1), D(-1, 1)>>,
     <<D(1, 2), D(-1, 2)>>}

\* a scale close to s (within epsilon, at epsilon) or far from it
ScalesNear(s) == {v \in {s + 1, s - 1, s + 2, s + Unit} : IsDouble(v) /\ v # 0}

HalfSteps == (-2 * MaxOffset)..(2 * MaxOffset)

FirstPose == <<D(4, 1), D(4, 1)>>

\* the whole pixels, along each axis, between the tiles of a list of three
WholeSteps == (-1)..1

\* a second tile of the same shape, dx and dy half pixels away from the first
Shifted(tag, n, s, sc, dx, dy) ==
    Tile(tag, n, s[1], s[2],
         <<FirstPose[1] + (dx * sc[1]) \div 2, FirstPose[2] + (dy * sc[2]) \div 2,
           sc[1], sc[2]>>)

MergeInputs ==
    LET First(n, s, sc) == Shifted(1, n, s, sc, 0, 0)
    IN  {<<First(n, s, sc)>> : n \in 1..MaxBands, s \in TileShapes, sc \in TileScales}
        \cup {<<First(n, s, sc), Shifted(2, n, s, sc, d[1], d[2])>> :
                  n \in 1..MaxBands, s \in TileShapes, sc \in TileScales,
                  d \in HalfSteps \X HalfSteps}
        \cup UNION {{<<First(n, s, sc), Tile(2, n, s[1], s[2],
                                            <<FirstPose[1], FirstPose[2], v, sc[2]>>)>>
                         : v \in ScalesNear(sc[1])}
                    \cup {<<First(n, s, sc), Tile(2, n, s[1], s[2],
                                                  <<FirstPose[1], FirstPose[2], sc[1], v>>)>>
                         : v \in ScalesNear(sc[2])}
                    \cup {<<First(n, s, sc), Shifted(2, n, <<s[1] + 1, s[2]>>, sc, 0, 0)>>,
                          <<First(n, s, sc), Shifted(2, n, <<s[1], s[2] + 1>>, sc, 0, 0)>>,
                          <<First(n, s, sc), Shifted(2, n + 1, s, sc, 0, 0)>>,
                          <<First(n, s, sc), Shifted(2, n, s, sc, 2, 0),
                            Shifted(3, n - 1, s, sc, 0, 0)>>}
                    : n \in 1..MaxBands, s \in TileShapes, sc \in TileScales}
        \cup {<<First(n, s, sc), Shifted(2, n, s, sc, 2 * d[1], 2 * d[2]),
                 Shifted(3, n, s, sc, 2 * e[1], 2 * e[2])>> :
                  n \in 1..MaxBands, s \in TileShapes, sc \in TileScales,
                  d \in WholeSteps \X WholeSteps, e \in WholeSteps \X WholeSteps}

InitMerge ==
    /\ g = gdal_custom(0, 0)
    /\ files \in MergeInputs
    /\ no_data = NoData
    /\ out = NoOutcome
    /\ call = NoCall
    /\ arg = <<0, 0>>
    /\ ret = <<0, 0>>

\* out = merge(files, no_data)
DoMerge ==
    /\ out.status = "none"
    /\ out' \in merge(files, no_data)
    /\ UNCHANGED <<g, files, no_data, call, arg, ret>>

NextMerge == DoMerge

SpecMerge == InitMerge /\ [][NextMerge]_vars


\* ================================================================= claims
AllSamples(x, v) ==
    \A b \in 1..Len(x.bands) : \A i \in 1..Len(x.bands[b]) : x.bands[b][i] = v

\* C1: after set_size(n, w, h, fill), whatever the dataset held before, it
\* has n bands and every sample of every band equals fill.
C1_SetSizeFills ==
    [][\A n \in 0..MaxBands, s \in Shapes, f \in Samples :
           SetSize(n, s[1], s[2], f) => Len(g'.bands) = n /\ AllSamples(g', f)]_vars

\* C2: after any sequence of operations, the two-argument set_size(x, y)
\* included, every band has exactly width * height samples.
C2_BandLength == Consistent(g)

\* C2 as amended: the dataset starts with every band of width * height
\* samples, and every operation other than the two-argument set_size(x, y)
\* keeps it so.
C2_BandLengthButSetSizeXY ==
    /\ Consistent(g)
    /\ [][(Consistent(g) /\ ~(\E s \in Shapes : SetSizeXY(s[1], s[2])))
              => Consistent(g')]_vars

\* C2's case: a dataset with bands of width * height > 0 samples
C2_Witness ==
    /\ Len(g.bands) = MaxBands
    /\ g.width * g.height = MaxPixels
    /\ Consistent(g)
    /\ ~AllSamples(g, 0)

\* C3: after any sequence of operations the number of bands equals the
\* number of per-band metadata mappings.
C3_BandMetadataLength == Len(g.bands) = Len(g.band_metadata)

\* C4: after a = b, a holds the value b had before the assignment, also when
\* a and b are the same object.
C4_AssignCopies ==
    [][/\ \A x \in Others : Assign(x) => g' = x
       /\ AssignSelf => g' = g]_vars

SameMeta(x, y) ==
    /\ x.transform = y.transform
    /\ x.utm_zone = y.utm_zone
    /\ x.utm_north = y.utm_north
    /\ x.metadata = y.metadata
    /\ x.custom_x_origin = y.custom_x_origin
    /\ x.custom_y_origin = y.custom_y_origin
    /\ x.custom_z_origin = y.custom_z_origin

\* C5: after each form of copy_meta from src, the target's transform, UTM
\* zone and hemisphere, metadata and custom origin equal those of src, and
\* every sample of the target is reset (to the default fill, 0).
C5_CopyMeta ==
    [][\A x \in Others :
        /\ CopyMeta(x) => SameMeta(g', x) /\ AllSamples(g', 0)
        /\ \A n \in 0..MaxBands :
               CopyMetaN(x, n) => SameMeta(g', x) /\ AllSamples(g', 0)
        /\ \A s \in Shapes :
               CopyMetaWH(x, s[1], s[2]) => SameMeta(g', x) /\ AllSamples(g', 0)]_vars

\* C5, its two halves apart: the custom origin, and the samples
C5_CopyMetaOrigin ==
    [][\A x \in Others : CopyMeta(x) =>
           /\ g'.custom_x_origin = x.custom_x_origin
           /\ g'.custom_y_origin = x.custom_y_origin
           /\ g'.custom_z_origin = x.custom_z_origin]_vars

C5_CopyMetaResets ==
    [][\A x \in Others : CopyMeta(x) => AllSamples(g', 0)]_vars

\* C9: merge of a single tile returns a dataset equal to it by operator==.
C9_SingleTile ==
    [][\A nd \in Samples :
           (Consistent(g) /\ MergeAssign(<<g>>, nd)) => equal(g', g)]_vars

\* (col, row) is a pixel of the grid: integers with col < width, row < height
InGrid(d, p) ==
    /\ \E c \in 0..(d.width - 1) : p[1] = c * Unit
    /\ \E r \in 0..(d.height - 1) : p[2] = r * Unit

\* what the claim says index_of gives for the pixel coordinates p
IndexOfClaim(d, p, r) ==
    LET col == dround(p[1])
        row == dround(p[2])
    IN  IF col >= 0 /\ col < d.width /\ row >= 0 /\ row < d.height
        THEN r = col + row * d.width /\ r < d.width * d.height
        ELSE r = SizeMax

\* C6: index_of gives col + row * width, an index into a band, exactly when
\* the rounded coordinates are in the grid, and the out-of-bounds value for
\* every other coordinate, negative ones included.
C6_IndexOf ==
    /\ call = "index_pix" => IndexOfClaim(g, arg, ret)
    /\ call = "index_utm" => IndexOfClaim(g, point_utm2pix(g, arg[1], arg[2]), ret)
    /\ call = "index_custom" => IndexOfClaim(g, point_custom2pix(g, arg[1], arg[2]), ret)

\* C7: for every pixel (col, row) of the grid, utm_to_pixel(pixel_to_utm(col,
\* row)) and custom_to_pixel(pixel_to_custom(col, row)) recover (col, row).
C7_RoundTrip ==
    /\ (call = "point_pix2utm" /\ InGrid(g, arg))
           => point_utm2pix(g, ret[1], ret[2]) = arg
    /\ (call = "point_pix2custom" /\ InGrid(g, arg))
           => point_custom2pix(g, ret[1], ret[2]) = arg

\* pixel_to_utm of p computes its two products and two sums without rounding
ExactPix2Utm(d, p) ==
    /\ dmul(p[1], get_scale_x(d)) * Unit = p[1] * get_scale_x(d)
    /\ dmul(p[2], get_scale_y(d)) * Unit = p[2] * get_scale_y(d)
    /\ dadd(dmul(p[1], get_scale_x(d)), get_utm_pose_x(d))
           = dmul(p[1], get_scale_x(d)) + get_utm_pose_x(d)
    /\ dadd(dmul(p[2], get_scale_y(d)), get_utm_pose_y(d))
           = dmul(p[2], get_scale_y(d)) + get_utm_pose_y(d)

\* and pixel_to_custom its two differences as well
ExactPix2Custom(d, p) ==
    LET u == point_pix2utm(d, p[1], p[2])
    IN  /\ ExactPix2Utm(d, p)
        /\ dsub(u[1], d.custom_x_origin) = u[1] - d.custom_x_origin
        /\ dsub(u[2], d.custom_y_origin) = u[2] - d.custom_y_origin

\* C7 as amended: the round trips recover (col, row) exactly whenever the
\* forward mapping computed its result without rounding.
C7_RoundTripExact ==
    /\ (call = "point_pix2utm" /\ InGrid(g, arg) /\ ExactPix2Utm(g, arg))
           => point_utm2pix(g, ret[1], ret[2]) = arg
    /\ (call = "point_pix2custom" /\ InGrid(g, arg) /\ ExactPix2Custom(g, arg))
           => point_custom2pix(g, ret[1], ret[2]) = arg

\* C7's case: a pixel other than the origin of a grid with a fractional
\* scale, a pose and a custom origin, mapped forward without rounding
C7_Witness ==
    /\ call = "point_pix2custom"
    /\ InGrid(g, arg) /\ arg[1] > 0 /\ arg[2] > 0
    /\ ExactPix2Custom(g, arg)
    /\ get_scale_x(g) = D(3, 8) /\ g.custom_x_origin = D(13, 4)
    /\ ret # arg

\* a tile differs from the first: a scale by epsilon or more, or a dimension
\* or the band count at all
Differs(first, file) ==
    \/ Abs(get_scale_x(first) - get_scale_x(file)) * Pow2(MantBits - 1) >= Unit
    \/ Abs(get_scale_y(first) - get_scale_y(file)) * Pow2(MantBits - 1) >= Unit
    \/ first.width # file.width
    \/ first.height # file.height
    \/ Len(first.bands) # Len(file.bands)

\* C8: when a tile differs from the first, merge fails with the size
\* mismatch error, produces no output and leaves the tiles as they were.
C8_ShapeMismatch ==
    /\ []((out.status # "none" /\ \E k \in 1..Len(files) : Differs(files[1], files[k]))
             => (out.status = "runtime_error" /\ "result" \notin DOMAIN out))
    /\ [][DoMerge => files' = files]_vars

\* C8's case: merge has failed on two tiles of different heights
C8_Witness ==
    /\ out.status = "runtime_error"
    /\ Len(files) = 2
    /\ files[1].height # files[2].height
    /\ files[1].width = files[2].width

\* a scale within epsilon of the first tile's is no mismatch
C8_WithinEpsilon ==
    /\ out.status = "ok"
    /\ Len(files) = 2
    /\ get_scale_x(files[1]) # get_scale_x(files[2])

\* The claims about the mosaic state its geometry in exact arithmetic.
\* round-half-up of n / d, and floor(n / d + 1/10)
RoundHalfUp(n, d) == FloorDiv(2 * n + d, 2 * d)
FloorTenth(n, d) == FloorDiv(10 * n + d, 10 * d)

ClaimMinX == MinPose(files, Len(files), 1)
ClaimMaxX == MaxPose(files, Len(files), 1)
ClaimMinY == MinPose(files, Len(files), 4)
ClaimMaxY == MaxPose(files, Len(files), 4)

ClaimOutW ==
    RoundHalfUp(ClaimMaxX + get_scale_x(files[1]) * files[1].width - ClaimMinX,
                get_scale_x(files[1]))
ClaimOutH ==
    RoundHalfUp(ClaimMinY + get_scale_y(files[1]) * files[1].height - ClaimMaxY,
                get_scale_y(files[1]))

ClaimXoff(k) == FloorTenth(get_utm_pose_x(files[k]) - ClaimMinX, get_scale_x(files[1]))
ClaimYoff(k) == FloorTenth(get_utm_pose_y(files[k]) - ClaimMaxY, get_scale_y(files[1]))

\* the ground a tile covers, as an interval of x and one of y
Lo(a, b) == IF a < b THEN a ELSE b
Hi(a, b) == IF a < b THEN b ELSE a
FootX(t) == <<Lo(get_utm_pose_x(t), get_utm_pose_x(t) + get_scale_x(t) * t.width),
              Hi(get_utm_pose_x(t), get_utm_pose_x(t) + get_scale_x(t) * t.width)>>
FootY(t) == <<Lo(get_utm_pose_y(t), get_utm_pose_y(t) + get_scale_y(t) * t.height),
              Hi(get_utm_pose_y(t), get_utm_pose_y(t) + get_scale_y(t) * t.height)>>
Disjoint(t, u) ==
    \/ FootX(t)[2] <= FootX(u)[1] \/ FootX(u)[2] <= FootX(t)[1]
    \/ FootY(t)[2] <= FootY(u)[1] \/ FootY(u)[2] <= FootY(t)[1]

\* tile k covers the pixel (x, y) of the mosaic
Covers(k, x, y) ==
    /\ x >= ClaimXoff(k) /\ x < ClaimXoff(k) + files[k].width
    /\ y >= ClaimYoff(k) /\ y < ClaimYoff(k) + files[k].height

\* the sample of band b of tile k that lies on the pixel (x, y) of the mosaic
TileSample(k, b, x, y) ==
    files[k].bands[b][(x - ClaimXoff(k)) + (y - ClaimYoff(k)) * files[k].width + 1]

\* the mosaic of the claim: of the envelope's size, every tile inside it,
\* every pixel holding the sample of the tile covering it, or no_data
MosaicOfDisjoint(r) ==
    /\ r.width = ClaimOutW
    /\ r.height = ClaimOutH
    /\ \A k \in 1..Len(files) :
           /\ ClaimXoff(k) >= 0 /\ ClaimXoff(k) + files[k].width <= ClaimOutW
           /\ ClaimYoff(k) >= 0 /\ ClaimYoff(k) + files[k].height <= ClaimOutH
    /\ \A b \in 1..Len(files[1].bands) :
           /\ Len(r.bands[b]) = ClaimOutW * ClaimOutH
           /\ \A x \in 0..(ClaimOutW - 1), y \in 0..(ClaimOutH - 1) :
                  LET ks == {k \in 1..Len(files) : Covers(k, x, y)}
                  IN  IF ks = {} THEN r.bands[b][x + y * ClaimOutW + 1] = no_data
                      ELSE \A k \in ks :
                               r.bands[b][x + y * ClaimOutW + 1] = TileSample(k, b, x, y)

TwoDisjointTiles ==
    /\ Len(files) = 2
    /\ ~Differs(files[1], files[2])
    /\ get_scale_x(files[1]) = get_scale_x(files[2])
    /\ get_scale_y(files[1]) = get_scale_y(files[2])
    /\ Disjoint(files[1], files[2])

\* C10: merge of two disjoint, equal-scale tiles returns a mosaic of the
\* size of their envelope, in which every pixel covered by a tile holds that
\* tile's sample and every other pixel holds no_data, in every band.
C10_DisjointMosaic ==
    (out.status # "none" /\ TwoDisjointTiles)
        => (out.status = "ok" /\ MosaicOfDisjoint(out.result))

\* the same for tiles with scale_x > 0 and scale_y < 0 only (north up)
C10_NorthUp ==
    (out.status # "none" /\ TwoDisjointTiles
         /\ get_scale_x(files[1]) > 0 /\ get_scale_y(files[1]) < 0)
        => (out.status = "ok" /\ MosaicOfDisjoint(out.result))

C10_NorthUpWitness ==
    /\ out.status = "ok" /\ TwoDisjointTiles
    /\ get_scale_x(files[1]) > 0 /\ get_scale_y(files[1]) < 0
    /\ ClaimOutW > files[1].width /\ ClaimOutH > files[1].height
    /\ ClaimOutW * ClaimOutH > 2 * files[1].width * files[1].height

\* the files passed the test of merge and tell the geometry of the mosaic
Validated == \A k \in 1..Len(files) : ~Differs(files[1], files[k])

Overlapping ==
    \E k \in 1..Len(files), l \in 1..Len(files) :
        k < l /\ ~Disjoint(files[k], files[l])

\* the tiles covering the pixel (x, y) of the mosaic, and the last of them
Covering(x, y) == {k \in 1..Len(files) : Covers(k, x, y)}
LastCovering(x, y) == CHOOSE k \in Covering(x, y) : \A l \in Covering(x, y) : l <= k

\* r is of the size of the envelope, and every pixel of it that two or more
\* tiles cover holds the sample of the last of them
LastWriterWins(r) ==
    /\ r.width = ClaimOutW
    /\ r.height = ClaimOutH
    /\ \A b \in 1..Len(files[1].bands) :
           /\ Len(r.bands[b]) = ClaimOutW * ClaimOutH
           /\ \A x \in 0..(ClaimOutW - 1), y \in 0..(ClaimOutH - 1) :
                  Cardinality(Covering(x, y)) >= 2
                      => r.bands[b][x + y * ClaimOutW + 1]
                             = TileSample(LastCovering(x, y), b, x, y)

\* C11: when footprints of the tiles overlap, merge returns a mosaic in
\* which every pixel of an overlap holds the sample of the latest, in input
\* order, of the tiles covering it, in every band.
C11_LastWriterWins ==
    (out.status # "none" /\ Validated /\ Overlapping)
        => (out.status = "ok" /\ LastWriterWins(out.result))

\* the same for tiles with scale_x > 0 and scale_y < 0 only (north up)
C11_NorthUp ==
    (out.status # "none" /\ Validated /\ Overlapping
         /\ get_scale_x(files[1]) > 0 /\ get_scale_y(files[1]) < 0)
        => (out.status = "ok" /\ LastWriterWins(out.result))

C11_NorthUpWitness ==
    /\ out.status = "ok" /\ Validated /\ Len(files) = 3
    /\ get_scale_x(files[1]) > 0 /\ get_scale_y(files[1]) < 0
    /\ LastWriterWins(out.result)
    /\ \E x \in 0..(ClaimOutW - 1), y \in 0..(ClaimOutH - 1) : Covering(x, y) = {1, 2, 3}
    /\ \E x \in 0..(ClaimOutW - 1), y \in 0..(ClaimOutH - 1) : Covering(x, y) = {2, 3}

\* ============================================================== band names
\* gdal_named::set_band_name: band_id counts from 0
set_band_name(d, band_id, name) ==
    [d EXCEPT !.band_metadata[band_id + 1] = MetaPut(@, "NAME", name)]

\* gdal_named::get_band_name is not const: operator[] of the map inserts an
\* empty NAME when the band has none.  The name, and the dataset after.
get_band_name(d, band_id) ==
    LET named == IF "NAME" \in DOMAIN d.band_metadata[band_id + 1] THEN d
                 ELSE set_band_name(d, band_id, "")
    IN  [name |-> named.band_metadata[band_id + 1]["NAME"], dataset |-> named]

\* gdal_named::get_band_id: the loop variable bm is an element of
\* band_metadata, a std::map, and the test reads bm.second, which a map does
\* not have.  The member of the class template is ill-formed as soon as it
\* is instantiated, that is in every program that calls it (or get_band):
\* no build has a get_band_id that returns or throws.
get_band_id(d, name) == [status |-> "ill_formed"]

Names == {"a", "b", "x"}

InitNames ==
    /\ g \in {Built(n, <<1, 1>>, 0, DefaultTransform, DefaultUtm, DefaultOrigin) :
                  n \in 1..MaxBands}
    /\ Idle

SetBandName(band_id, name) ==
    /\ band_id < Len(g.band_metadata)
    /\ g' = set_band_name(g, band_id, name)
    /\ call' = "set_band_name"
    /\ arg' = <<band_id, name>>
    /\ ret' = <<>>
    /\ UNCHANGED <<files, no_data, out>>

GetBandName(band_id) ==
    /\ band_id < Len(g.band_metadata)
    /\ g' = get_band_name(g, band_id).dataset
    /\ call' = "get_band_name"
    /\ arg' = <<band_id>>
    /\ ret' = get_band_name(g, band_id).name
    /\ UNCHANGED <<files, no_data, out>>

GetBandId(name) ==
    /\ call' = "get_band_id"
    /\ arg' = name
    /\ ret' = get_band_id(g, name)
    /\ UNCHANGED <<g, files, no_data, out>>

NextNames ==
    \/ \E band_id \in 0..(MaxBands - 1), name \in Names : SetBandName(band_id, name)
    \/ \E band_id \in 0..(MaxBands - 1) : GetBandName(band_id)
    \/ \E name \in Names : GetBandId(name)

SpecNames == InitNames /\ [][NextNames]_vars

\* the bands of d whose NAME entry is name, counted from 0
BandsNamed(d, name) ==
    {i \in 0..(Len(d.band_metadata) - 1) :
         /\ "NAME" \in DOMAIN d.band_metadata[i + 1]
         /\ d.band_metadata[i + 1]["NAME"] = name}

\* C12: get_band_id(name) returns the index of the first band whose NAME
\* entry is name, fails with the name-not-found error (std::out_of_range)
\* when no band has that name, and leaves the dataset as it was.
C12_GetBandId ==
    [][\A name \in Names : GetBandId(name) =>
           /\ g' = g
           /\ IF BandsNamed(g, name) = {}
              THEN ret'.status = "out_of_range"
              ELSE /\ ret'.status = "ok"
                   /\ ret'.band_id \in BandsNamed(g, name)
                   /\ \A i \in BandsNamed(g, name) : ret'.band_id <= i]_vars

\* ========================================================== raster2bytes
\* A band has samples of type float.  A float is, like a double, an integer
\* number of units, here with FloatBits significant bits.
FloatBits == 12
MaxLen == 3

RECURSIVE FloatQuantum(_, _)
FloatQuantum(whole, k) ==
    IF whole < Pow2(FloatBits + k) THEN k ELSE FloatQuantum(whole, k + 1)

\* the float nearest to the rational n / d (in units), d > 0
RoundF(n, d) ==
    LET a == Abs(n)
        k == FloatQuantum(a \div d, 0)
        m == RoundHalfEven(a, d * Pow2(k))
    IN  IF n < 0 THEN -(m * Pow2(k)) ELSE m * Pow2(k)

fsub(a, b) == RoundF(a - b, 1)
fmul(a, b) == RoundF(a * b, Unit)

\* the conversion of an integer-valued float to uint8_t; undefined for a
\* value that a byte cannot hold (builds wrap or saturate)
ToByte(v) ==
    IF v >= 0 /\ v <= 255 THEN {v}
    ELSE IF v < 0 THEN {0, v % 256} ELSE {255, v % 256}

\* *std::min_element and *std::max_element of a band that is not empty
RECURSIVE MinOf(_)
MinOf(v) ==
    IF Len(v) = 1 THEN v[1]
    ELSE LET m == MinOf(Tail(v)) IN IF v[1] <= m THEN v[1] ELSE m

RECURSIVE MaxOf(_)
MaxOf(v) ==
    IF Len(v) = 1 THEN v[1]
    ELSE LET m == MaxOf(Tail(v)) IN IF v[1] > m THEN v[1] ELSE m

\* the bytes that the floats of a sequence convert to
RECURSIVE BytesOf(_)
BytesOf(floors) ==
    IF floors = <<>> THEN {<<>>}
    ELSE {<<b>> \o r : b \in ToByte(Head(floors)), r \in BytesOf(Tail(floors))}

\* raster2bytes(v): the set of its outcomes.  For an empty band minmax_element
\* returns v.end() twice and the function reads through it, which is
\* undefined: the read faults (an empty vector without storage) or yields
\* some values, after which the function returns the empty bytes.
raster2bytes(v) ==
    IF Len(v) = 0 THEN {[status |-> "fault"], [status |-> "ok", bytes |-> <<>>]}
    ELSE LET min == MinOf(v)
             max == MaxOf(v)
             diff == fsub(max, min)
             coef == RoundF(255 * Unit * Unit, diff)
             floors == [i \in 1..Len(v) |-> dfloor(fmul(coef, fsub(v[i], min)))]
         IN  IF diff = 0 THEN {[status |-> "ok", bytes |-> [i \in 1..Len(v) |-> 0]]}
             ELSE {[status |-> "ok", bytes |-> b] : b \in BytesOf(floors)}

\* the samples of the bands given to raster2bytes
ByteSamples == {-3 * Unit, 0, 7 * Unit, 10 * Unit, 20 * Unit}

RECURSIVE BandsOfLen(_)
BandsOfLen(n) ==
    IF n = 0 THEN {<<>>}
    ELSE {<<x>> \o v : x \in ByteSamples, v \in BandsOfLen(n - 1)}

InitBytes ==
    /\ g = gdal_custom(0, 0)
    /\ files = <<>>
    /\ no_data = 0
    /\ out = NoOutcome
    /\ call = NoCall
    /\ arg \in UNION {BandsOfLen(n) : n \in 0..MaxLen}
    /\ ret = <<>>

\* ret = raster2bytes(arg)
CallRaster2Bytes ==
    /\ call = NoCall
    /\ call' = "raster2bytes"
    /\ ret' \in raster2bytes(arg)
    /\ UNCHANGED <<g, files, no_data, out, arg>>

NextBytes == CallRaster2Bytes

SpecBytes == InitBytes /\ [][NextBytes]_vars

\* floor(255 / (max - min) * (s - min)), in exact arithmetic
ExactByte(v, s) == FloorDiv(255 * (s - MinOf(v)), MaxOf(v) - MinOf(v))

\* C13: raster2bytes returns one byte per sample: zeros for a band of equal
\* samples, and otherwise floor(255 / (max - min) * (sample - min)) for each
\* sample, so 0 for the least sample and [0, 127, 255] for [0, 10, 20].
C13_Raster2Bytes ==
    call = "raster2bytes" =>
        /\ ret.status = "ok"
        /\ Len(ret.bytes) = Len(arg)
        /\ \A i \in 1..Len(arg) :
               /\ ret.bytes[i] \in 0..255
               /\ IF MinOf(arg) = MaxOf(arg) THEN ret.bytes[i] = 0
                  ELSE ret.bytes[i] = ExactByte(arg, arg[i])

\* C13 for the bands that are not empty, with the products as the function
\* computes them (in floats): one byte per sample, zeros for a band of equal
\* samples, 0 for the least sample and at least 254 for the greatest
C13_InFloats ==
    (call = "raster2bytes" /\ Len(arg) > 0) =>
        /\ ret.status = "ok"
        /\ Len(ret.bytes) = Len(arg)
        /\ \A i \in 1..Len(arg) :
               /\ ret.bytes[i] \in 0..255
               /\ MinOf(arg) = MaxOf(arg) => ret.bytes[i] = 0
               /\ arg[i] = MinOf(arg) => ret.bytes[i] = 0
               /\ (arg[i] = MaxOf(arg) /\ MinOf(arg) # MaxOf(arg))
                      => ret.bytes[i] \in {254, 255}
        /\ arg = <<0, 10 * Unit, 20 * Unit>> => ret.bytes = <<0, 127, 255>>

C13_InFloatsWitness ==
    /\ call = "raster2bytes"
    /\ arg = <<0, 10 * Unit, 20 * Unit>>
    /\ ret = [status |-> "ok", bytes |-> <<0, 127, 255>>]

\* ==================================================================== load
\* std::stod on the strings of the model (an optional sign, digits, an
\* optional point and digits; no spaces, exponents or names of values): the
\* longest such prefix is converted, and a string without one is an
\* std::invalid_argument.
IsDigit(c) == \E d \in 0..9 : ToString(d) = c
DigitOf(c) == CHOOSE d \in 0..9 : ToString(d) = c

RECURSIVE Pow10(_)
Pow10(n) == IF n <= 0 THEN 1 ELSE 10 * Pow10(n - 1)

\* the digits of s from position i on: their value, their count
RECURSIVE ReadDigits(_, _, _, _)
ReadDigits(s, i, val, cnt) ==
    IF i <= Len(s) /\ IsDigit(s[i])
    THEN ReadDigits(s, i + 1, 10 * val + DigitOf(s[i]), cnt + 1)
    ELSE [val |-> val, cnt |-> cnt]

stod(s) ==
    LET neg == Len(s) >= 1 /\ s[1] = "-"
        start == IF Len(s) >= 1 /\ s[1] \in {"-", "+"} THEN 2 ELSE 1
        whole == ReadDigits(s, start, 0, 0)
        dot == start + whole.cnt
        frac == IF dot <= Len(s) /\ s[dot] = "."
                THEN ReadDigits(s, dot + 1, 0, 0)
                ELSE [val |-> 0, cnt |-> 0]
        n == whole.val * Pow10(frac.cnt) + frac.val
    IN  IF whole.cnt + frac.cnt = 0 THEN [ok |-> FALSE]
        ELSE [ok |-> TRUE, value |-> D(IF neg THEN -n ELSE n, Pow10(frac.cnt))]

\* gdal::load up to GDALClose, on what GDAL reads from the file f: the size,
\* the UTM zone, the transform, the items of the metadata (each assigned to
\* its key: the keys the dataset had before stay), the bands and their names
load_base(d, f) ==
    LET sized == set_size(d, f.n, f.width, f.height, 0)
        named == [i \in 1..f.n |->
                     IF f.names[i] = <<>> THEN sized.band_metadata[i]
                     ELSE MetaPut(sized.band_metadata[i], "NAME", f.names[i][1])]
    IN  [sized EXCEPT
            !.utm_zone = f.utm_zone,
            !.utm_north = f.utm_north,
            !.transform = f.transform,
            !.metadata = [k \in (DOMAIN d.metadata) \cup (DOMAIN f.metadata) |->
                             IF k \in DOMAIN f.metadata THEN f.metadata[k]
                             ELSE d.metadata[k]],
            !.bands = f.bands,
            !.band_metadata = named]

\* gdal_custom::load(filepath): how it ends and the dataset it leaves
load(d, f) ==
    IF ~f.opens THEN [status |-> "runtime_error", dataset |-> d]
    ELSE LET base == load_base(d, f)
             x == stod(get(base.metadata, "CUSTOM_X_ORIGIN", <<"0">>))
             y == stod(get(base.metadata, "CUSTOM_Y_ORIGIN", <<"0">>))
             z == stod(get(base.metadata, "CUSTOM_Z_ORIGIN", <<"0">>))
         IN  IF ~x.ok THEN [status |-> "invalid_argument", dataset |-> base]
             ELSE IF ~y.ok
             THEN [status |-> "invalid_argument",
                   dataset |-> [base EXCEPT !.custom_x_origin = x.value]]
             ELSE IF ~z.ok
             THEN [status |-> "invalid_argument",
                   dataset |-> [base EXCEPT !.custom_x_origin = x.value,
                                            !.custom_y_origin = y.value]]
             ELSE [status |-> "ok",
                   dataset |-> [base EXCEPT !.custom_x_origin = x.value,
                                            !.custom_y_origin = y.value,
                                            !.custom_z_origin = z.value]]

\* the values of the CUSTOM_*_ORIGIN items of the files: a number, as
\* set_custom_origin writes it, and a text that is no number
OriginTexts == {to_string(D(1, 2)), <<"a", "b", "c">>}
OriginKeys == {"CUSTOM_X_ORIGIN", "CUSTOM_Y_ORIGIN", "CUSTOM_Z_ORIGIN"}

\* what GDAL reads from the files load is given: a file that cannot be
\* opened, and files of one band of one pixel
LoadFiles ==
    {[opens |-> o, n |-> 1, width |-> 1, height |-> 1,
      utm_zone |-> 31, utm_north |-> FALSE,
      transform |-> <<D(3, 1), D(1, 2), 0, D(5, 1), 0, D(-1, 2)>>,
      metadata |-> m, bands |-> <<<<MaxSample>>>>, names |-> <<nm>>] :
         o \in BOOLEAN,
         m \in UNION {[ks -> OriginTexts] : ks \in SUBSET OriginKeys},
         nm \in {<<>>, <<"a">>}}

\* the datasets load is called on: a new one, and one in use
LoadTargets ==
    {gdal_custom(0, 0)}
    \cup {Built(MaxBands, <<1, 1>>, 0, t, u, o) :
              t \in Transforms, u \in Utms, o \in Origins}

InitLoad ==
    /\ g \in LoadTargets
    /\ files = <<>>
    /\ no_data = 0
    /\ out = NoOutcome
    /\ call = NoCall
    /\ arg \in LoadFiles
    /\ ret = <<>>

\* g.load(arg)
Load ==
    /\ call = NoCall
    /\ call' = "load"
    /\ g' = load(g, arg).dataset
    /\ ret' = [status |-> load(g, arg).status]
    /\ UNCHANGED <<files, no_data, out, arg>>

NextLoad == Load

SpecLoad == InitLoad /\ [][NextLoad]_vars

\* the file f opens and holds a custom origin coordinate that is no number
BadOrigin(f) ==
    /\ f.opens
    /\ \E k \in OriginKeys : k \in DOMAIN f.metadata /\ ~stod(f.metadata[k]).ok

\* C14: load of a file with a CUSTOM_X_ORIGIN, CUSTOM_Y_ORIGIN or
\* CUSTOM_Z_ORIGIN that is no number fails with the parse error
\* (std::invalid_argument) and leaves the dataset exactly as it was.
C14_LoadAtomic ==
    [][(Load /\ BadOrigin(arg)) => (ret'.status = "invalid_argument" /\ g' = g)]_vars

\* the first half of C14 alone: the load fails with the parse error
C14_LoadFails ==
    [][(Load /\ BadOrigin(arg)) => ret'.status = "invalid_argument"]_vars

\* ================================================================ export8u
\* gdal::export8u(filepath, band, driver_shortname) of the dataset d, where
\* codec tells which calls of GDAL and of the file system succeed: the set
\* of its outcomes, each with the paths that exist afterwards.
export8u(d, band, codec) ==
    IF ~codec.driver \/ ~codec.gtiff \/ ~codec.create
    THEN {[status |-> "runtime_error", paths |-> {}, warned |-> FALSE]}
    ELSE {IF b.status # "ok"
          THEN [status |-> "fault", paths |-> {"tmptif"}, warned |-> FALSE]
          ELSE LET copied == IF codec.copy THEN {"tmpres"} ELSE {}
                   renamed == IF "tmpres" \in copied /\ codec.rename
                              THEN {"filepath"} ELSE copied
               IN  [status |-> "ok", paths |-> renamed, warned |-> ~codec.copy,
                    bytes |-> b.bytes]
          : b \in raster2bytes(d.bands[band + 1])}

\* which of GetDriverByName(driver_shortname), GetDriverByName("GTiff"),
\* Create, CreateCopy and std::rename succeed
Codecs ==
    [driver : BOOLEAN, gtiff : BOOLEAN, create : BOOLEAN, copy : BOOLEAN,
     rename : BOOLEAN]

\* the datasets exported: one band, one row
ExportSources ==
    UNION {{[Built(1, <<n, 1>>, 0, DefaultTransform, DefaultUtm, DefaultOrigin)
                EXCEPT !.bands = <<v>>] : v \in BandsOfLen(n)} : n \in 1..MaxLen}

InitExport ==
    /\ g \in ExportSources
    /\ files = <<>>
    /\ no_data = 0
    /\ out = NoOutcome
    /\ call = NoCall
    /\ arg \in Codecs
    /\ ret = <<>>

\* g.export8u(filepath, 0)
Export8u ==
    /\ call = NoCall
    /\ call' = "export8u"
    /\ ret' \in export8u(g, 0, arg)
    /\ UNCHANGED <<g, files, no_data, out, arg>>

NextExport == Export8u

SpecExport == InitExport /\ [][NextExport]_vars

\* C15: when the codec fails to get a driver, to create the temporary
\* dataset or to create the copy, export8u reports a failure to its caller,
\* and it returns normally only when the output file is at the path asked.
C15_ExportReports ==
    call = "export8u" =>
        /\ (~arg.driver \/ ~arg.gtiff \/ ~arg.create \/ ~arg.copy) => ret.status # "ok"
        /\ ret.status = "ok" => "filepath" \in ret.paths

\* the part of C15 about the drivers and the temporary dataset
C15_CreateReports ==
    (call = "export8u" /\ (~arg.driver \/ ~arg.gtiff \/ ~arg.create))
        => (ret.status = "runtime_error" /\ ret.paths = {})

\* ======================================================== merge, continued
\* merge went past its first loop: every file passed the test
PassedValidation == out.status \notin {"none", "runtime_error"}

\* every file is copied to a rectangle inside the mosaic r, with the offsets
\* that the copy loop computes
CopiedInside(r) ==
    \A k \in 1..Len(files) :
        LET xoff == xoff_of(files[k], MinPose(files, Len(files), 1), get_scale_x(files[1]))
            yoff == yoff_of(files[k], MaxPose(files, Len(files), 4), get_scale_y(files[1]))
        IN  /\ xoff >= 0
            /\ yoff >= 0
            /\ xoff + files[k].width <= r.width
            /\ yoff + files[k].height <= r.height

\* C16: for files that pass the validation, with scales of either sign and
\* any origins, every tile is copied inside the output: xoff >= 0, yoff >= 0,
\* xoff + width <= out_w, yoff + height <= out_h, and no write falls outside
\* a band.
C16_WritesInBounds ==
    PassedValidation => (out.status = "ok" /\ CopiedInside(out.result))

\* the same for tiles with scale_x > 0 and scale_y < 0 only (north up)
C16_NorthUp ==
    (PassedValidation /\ get_scale_x(files[1]) > 0 /\ get_scale_y(files[1]) < 0)
        => (out.status = "ok" /\ CopiedInside(out.result))

\* ------------------------------------------- the copy steps of merge, apart
\* The second loop of merge, one step for each file and band, the steps
\* taken in any order: g is result, arg the steps still to take, out the
\* outcome of merge up to the loop.
CopyInputs == {fs \in MergeInputs : Len(fs) <= 2 \/ Len(fs[1].bands) = 1}

InitCopy ==
    /\ g = gdal_custom(0, 0)
    /\ files \in CopyInputs
    /\ no_data = NoData
    /\ out = NoOutcome
    /\ call = NoCall
    /\ arg = {}
    /\ ret = <<0, 0>>

\* the index of result's bands where the first sample of files[k] goes
start_of(k, sx) ==
    xoff_of(files[k], MinPose(files, Len(files), 1), get_scale_x(files[1]))
    + yoff_of(files[k], MaxPose(files, Len(files), 4), get_scale_y(files[1])) * sx

\* merge up to its second loop
Setup ==
    /\ call = NoCall
    /\ out.status = "none"
    /\ out' \in merge_setup(files, no_data)
    /\ IF out'.status = "ok"
       THEN /\ g' = out'.result
            /\ arg' = (1..Len(files)) \X (1..Len(files[1].bands))
            /\ call' = "copying"
       ELSE /\ call' = "thrown"
            /\ UNCHANGED <<g, arg>>
    /\ UNCHANGED <<files, no_data, ret>>

\* the rows of band b of files[k] are copied into band b of result
CopyStep(k, b) ==
    /\ call = "copying"
    /\ <<k, b>> \in arg
    /\ g' = [g EXCEPT !.bands[b] =
                 copy_band(@, files[k].bands[b], start_of(k, out.sx), files[1].width, out.sx)]
    /\ arg' = arg \ {<<k, b>>}
    /\ UNCHANGED <<files, no_data, out, call, ret>>

NextCopy ==
    \/ Setup
    \/ \E k \in 1..Len(files), b \in 1..Len(files[1].bands) : CopyStep(k, b)

SpecCopy == InitCopy /\ [][NextCopy]_vars

\* the places of a band of result that the copy step of files[k] writes
Written(k) ==
    {dest(j, start_of(k, out.sx), files[1].width, out.sx) :
         j \in 1..(files[k].width * files[k].height)}

\* the places of a band of result
Places == 0..(((out.sx * out.sy) % (SizeMax + 1)) - 1)

\* every step is taken, of files of which no two overlap
AllCopied == call = "copying" /\ arg = {} /\ ~Overlapping

\* the bands that the loop of merge makes, taking the steps in input order
InInputOrder ==
    copy_files(out.result, files, Len(files), MinPose(files, Len(files), 1),
               MaxPose(files, Len(files), 4), out.sx, files[1].width).bands

\* C17: when no two tiles' footprints overlap, the copy steps of distinct
\* (tile, band) pairs write to pairwise disjoint regions of the bands of the
\* output, so the steps taken in any order leave the same output bands as
\* the steps taken in input order.
C17_AnyOrder ==
    AllCopied
        => /\ \A k \in 1..Len(files), l \in 1..Len(files) :
                  k # l => Written(k) \cap Written(l) = {}
           /\ g.bands = InInputOrder

\* the same for tiles with scale_x > 0 and scale_y < 0 only (north up), where
\* moreover every write falls inside the band
C17_NorthUp ==
    (AllCopied /\ get_scale_x(files[1]) > 0 /\ get_scale_y(files[1]) < 0)
        => /\ \A k \in 1..Len(files) : Written(k) \subseteq Places
           /\ \A k \in 1..Len(files), l \in 1..Len(files) :
                  k # l => Written(k) \cap Written(l) = {}
           /\ g.bands = InInputOrder

C17_NorthUpWitness ==
    /\ AllCopied /\ Len(files) = 3 /\ files[1].width * files[1].height > 1
    /\ get_scale_x(files[1]) > 0 /\ get_scale_y(files[1]) < 0
    /\ g.bands = InInputOrder
    /\ \E i \in 1..Len(g.bands[1]) : g.bands[1][i] = no_data

\* ------------------------------------------ merge of tiles that tell of
\* themselves: a UTM zone, a custom origin, names of bands
Unnamed == "unnamed"

\* the bands 0..k-1 of d are given the names of the list, but for Unnamed
RECURSIVE NameBands(_, _, _)
NameBands(d, names, k) ==
    IF k = 0 THEN d
    ELSE LET r == NameBands(d, names, k - 1)
         IN  IF names[k] = Unnamed THEN r ELSE set_band_name(r, k - 1, names[k])

\* a tile of n bands of one sample v, built by its caller
MetaTile(n, v, pose, sc, u, o, names) ==
    NameBands(Built(n, <<1, 1>>, v, <<pose[1], pose[2], sc[1], sc[2]>>, u, o), names, n)

\* a tile made with copy_meta from a tile built by its caller
CopiedTile(n, v, pose, sc, u, o, names) ==
    NameBands(copy_meta(gdal_custom(0, 0),
                        Built(n, <<1, 1>>, v, <<pose[1], pose[2], sc[1], sc[2]>>, u, o)),
              names, n)

FirstTiles(n, sc) ==
    UNION {{MetaTile(n, 1, FirstPose, sc, u, o, names),
            CopiedTile(n, 1, FirstPose, sc, u, o, names)} :
               u \in {DefaultUtm} \cup Utms, o \in {DefaultOrigin} \cup Origins,
               names \in [1..n -> {Unnamed, "a", "b"}]}

\* a tile one pixel away from the first along both axes
SecondTiles(n, sc) ==
    {MetaTile(n, 2, <<FirstPose[1] + d[1] * sc[1], FirstPose[2] + d[2] * sc[2]>>, sc, u, o,
              [b \in 1..n |-> name]) :
         d \in {-1, 1} \X {-1, 1}, u \in {DefaultUtm} \cup Utms,
         o \in {DefaultOrigin} \cup Origins, name \in {Unnamed, "x"}}

MetaInputs ==
    UNION {{<<f>> : f \in FirstTiles(n, sc)}
           \cup {<<f, s>> : f \in FirstTiles(n, sc), s \in SecondTiles(n, sc)}
           : n \in 1..MaxBands, sc \in TileScales}

InitMeta ==
    /\ g = gdal_custom(0, 0)
    /\ files \in MetaInputs
    /\ no_data = NoData
    /\ out = NoOutcome
    /\ call = NoCall
    /\ arg = <<0, 0>>
    /\ ret = <<0, 0>>

SpecMeta == InitMeta /\ [][NextMerge]_vars

\* merge returned a dataset
Returned == out.status \in {"ok", "ub"}

\* band b of r and of t bear the same name, or none
SameName(r, t, b) ==
    /\ b <= Len(r.band_metadata)
    /\ ("NAME" \in DOMAIN r.band_metadata[b]) = ("NAME" \in DOMAIN t.band_metadata[b])
    /\ "NAME" \in DOMAIN t.band_metadata[b]
           => r.band_metadata[b]["NAME"] = t.band_metadata[b]["NAME"]

PlacedAtCorner(r) ==
    r.transform = <<ClaimMinX, get_scale_x(files[1]), 0,
                    ClaimMaxY, 0, get_scale_y(files[1])>>

CarriesFirst(r) ==
    /\ r.utm_zone = files[1].utm_zone
    /\ r.utm_north = files[1].utm_north
    /\ r.custom_x_origin = files[1].custom_x_origin
    /\ r.custom_y_origin = files[1].custom_y_origin
    /\ r.custom_z_origin = files[1].custom_z_origin
    /\ \A b \in 1..Len(files[1].bands) : SameName(r, files[1], b)

\* C18: the dataset merge returns has the transform [min_x, scale_x, 0,
\* max_y, 0, scale_y], and the first tile's UTM zone and hemisphere, custom
\* origin, dataset metadata and names of bands, whatever the other tiles hold.
C18_ResultMeta ==
    Returned
        => /\ PlacedAtCorner(out.result)
           /\ CarriesFirst(out.result)
           /\ out.result.metadata = files[1].metadata

\* the metadata of the first tile tell the custom origin it holds
Agreeing(t) ==
    /\ t.metadata["CUSTOM_X_ORIGIN"] = to_string(t.custom_x_origin)
    /\ t.metadata["CUSTOM_Y_ORIGIN"] = to_string(t.custom_y_origin)
    /\ t.metadata["CUSTOM_Z_ORIGIN"] = to_string(t.custom_z_origin)

\* the same for a first tile whose metadata tell its custom origin, and for
\* any first tile but for the metadata
C18_Agreeing ==
    Returned
        => /\ PlacedAtCorner(out.result)
           /\ CarriesFirst(out.result)
           /\ Agreeing(files[1]) => out.result.metadata = files[1].metadata

C18_AgreeingWitness ==
    /\ out.status = "ok" /\ Len(files) = 2 /\ Agreeing(files[1])
    /\ files[1].utm_zone # files[2].utm_zone
    /\ files[1].custom_x_origin # files[2].custom_x_origin
    /\ files[1].metadata # files[2].metadata
    /\ Len(files[1].bands) = MaxBands
    /\ files[1].band_metadata[1] # files[1].band_metadata[2]
    /\ files[1].band_metadata[1] # files[2].band_metadata[1]
    /\ get_utm_pose_x(files[2]) < get_utm_pose_x(files[1])
    /\ get_utm_pose_y(files[2]) > get_utm_pose_y(files[1])
    /\ C18_Agreeing
    /\ out.result.metadata = files[1].metadata

====
